---- MODULE Spec2Model ----
(***************************************************************************)
(* GARCHModelApp (GARCH.py): the Tk event loop, the run button's command   *)
(* run_garch_model, the two external capabilities it calls (yf.download    *)
(* and arch_model(...).fit) and the widgets it writes (output_text, ax).   *)
(***************************************************************************)
EXTENDS Integers, Sequences, FiniteSets, TLC

\* ------------------------------------------------------------------ bounds
MaxLen == 2        \* longest PriceSeries a fetch returns in Spec, SpecOrders
SeriesMaxLen == 3  \* longest PriceSeries a fetch returns in SpecSeries
SeriesMaxPrice == 2 \* closing prices are drawn from 0..SeriesMaxPrice there
MaxTextLen == 2    \* longest text typed into p_entry / q_entry in SpecOrders
MaxCv == 2         \* conditional volatilities are drawn from 1..MaxCv in SpecSeries
MaxPending == 1    \* button clicks that can wait in the Tk event queue
Scale == 100       \* fixed-point resolution of the float computations

\* ------------------------------------------------------- program constants
Pct == 100
TradingDays == 252

\* ------------------------------------------------------------ entry texts
\* Texts the user can leave in p_entry / q_entry (sequences of characters).
Texts == { <<"a">>, <<"-", "1">>, <<"1">> }

\* the characters of the texts typed in SpecOrders
Alphabet == { " ", "-", "+", "0", "1", "a" }

AllTexts(n) == UNION { [1..k -> Alphabet] : k \in 0..n }

TickerTexts == { "spy" }

\* str.upper() on the ticker entry
Upper(t) == IF t = "spy" THEN "SPY" ELSE t

IsDigit(c) == c \in {"0", "1"}

DigitVal(c) == IF c = "1" THEN 1 ELSE 0

RECURSIVE LStrip(_)
LStrip(s) ==
  IF s # <<>> /\ Head(s) = " " THEN LStrip(Tail(s)) ELSE s

RECURSIVE RStrip(_)
RStrip(s) ==
  IF s # <<>> /\ s[Len(s)] = " " THEN RStrip(SubSeq(s, 1, Len(s) - 1)) ELSE s

RECURSIVE DigitsVal(_, _)
\* value of a digit string, most significant digit first
DigitsVal(s, acc) ==
  IF s = <<>> THEN acc ELSE DigitsVal(Tail(s), 10 * acc + DigitVal(Head(s)))

\* int(text): surrounding whitespace is stripped, one optional sign, then
\* at least one digit and nothing else; anything else is a ValueError.
ParseInt(text) ==
  LET s    == RStrip(LStrip(text))
      neg  == s # <<>> /\ Head(s) = "-"
      sgn  == s # <<>> /\ Head(s) \in {"-", "+"}
      body == IF sgn THEN Tail(s) ELSE s
  IN IF body # <<>> /\ \A i \in 1..Len(body) : IsDigit(body[i])
       THEN [ok |-> TRUE,
             val |-> IF neg THEN 0 - DigitsVal(body, 0) ELSE DigitsVal(body, 0)]
       ELSE [ok |-> FALSE, val |-> 0]

\* the range test with "and" for "or"
OrdersInRangeBoth(pv, qv) == ~(pv < 0 /\ qv < 0)

\* the range test of line 79, negated: the orders that do not raise
OrdersInRange(pv, qv) == ~(pv < 0 \/ qv < 0)

\* lines 76-83: the try block around the two int() calls and the range test
OrdersValid(pt, qt) ==
  /\ ParseInt(pt).ok
  /\ ParseInt(qt).ok
  /\ OrdersInRange(ParseInt(pt).val, ParseInt(qt).val)

\* ------------------------------------------------------- float arithmetic
\* A float is <<n, d>>: the rational n/d in lowest terms with d > 0, or
\* NaN = <<0,0>>, +inf = <<1,0>>, -inf = <<-1,0>>.
NaN == <<0, 0>>

IsNaN(v) == v = NaN

Abs(x) == IF x < 0 THEN 0 - x ELSE x

Sign(x) == IF x < 0 THEN 0 - 1 ELSE IF x > 0 THEN 1 ELSE 0

RECURSIVE GCD(_, _)
GCD(a, b) == IF b = 0 THEN a ELSE GCD(b, a % b)

Norm(n, d) ==
  IF d = 0 THEN <<Sign(n), 0>>
  ELSE LET g == GCD(Abs(n), Abs(d))
       IN <<(Sign(d) * n) \div g, Abs(d) \div g>>

\* a / b under IEEE rules (x/0 is an infinity, 0/0 and NaN operands give NaN)
FDiv(a, b) ==
  IF IsNaN(a) \/ IsNaN(b) THEN NaN
  ELSE IF a[2] = 0 /\ b[2] = 0 THEN NaN
  ELSE IF a[2] = 0 THEN <<a[1] * (IF Sign(b[1]) < 0 THEN 0 - 1 ELSE 1), 0>>
  ELSE IF b[2] = 0 THEN <<0, 1>>
  ELSE Norm(a[1] * b[2], a[2] * b[1])

\* a - k for an integer k
FSubInt(a, k) ==
  IF a[2] = 0 THEN a ELSE Norm(a[1] - k * a[2], a[2])

\* k * a for a positive integer k
FMulInt(k, a) ==
  IF a[2] = 0 THEN a ELSE Norm(k * a[1], a[2])

\* -------------------------------------------------------------- the Series
\* A pandas Series is a sequence of [date, value] rows.
Row(d, v) == [date |-> d, value |-> v]

\* Series.shift(1): the index stays, every value moves down one row
Shift(s) ==
  [i \in 1..Len(s) |-> Row(s[i].date, IF i = 1 THEN NaN ELSE s[i - 1].value)]

\* the change taken against the current row instead of the previous one
PctChangeInverted(s) ==
  [i \in 1..Len(s) |->
     Row(s[i].date, FSubInt(FDiv(Shift(s)[i].value, s[i].value), 1))]

\* Series.pct_change(): s / s.shift(1) - 1, row by row
PctChange(s) ==
  [i \in 1..Len(s) |->
     Row(s[i].date, FSubInt(FDiv(s[i].value, Shift(s)[i].value), 1))]

\* no row is removed
DropNaNothing(s) == s

RECURSIVE DropNa(_)
\* Series.dropna(): the rows whose value is NaN are removed, order kept
DropNa(s) ==
  IF s = <<>> THEN <<>>
  ELSE IF IsNaN(Head(s).value) THEN DropNa(Tail(s))
  ELSE <<Head(s)>> \o DropNa(Tail(s))

\* line 97: returns = 100 * data.pct_change().dropna()
Returns(data) ==
  LET r == DropNa(PctChange(data))
  IN [i \in 1..Len(r) |-> Row(r[i].date, FMulInt(Pct, r[i].value))]

\* the test never fires
IsEmptyNever(s) == FALSE

\* line 92 / line 98: Series.empty
IsEmpty(s) == Len(s) = 0

\* ------------------------------------------------------------ fixed point
\* Non-negative floats of the volatility computation, in units of 1/Scale.
RECURSIVE Bisect(_, _, _)
\* the largest y in lo..hi with y*y <= x, found by bisection
Bisect(x, lo, hi) ==
  IF lo >= hi THEN lo
  ELSE LET mid == (lo + hi + 1) \div 2
       IN IF mid * mid <= x THEN Bisect(x, mid, hi) ELSE Bisect(x, lo, mid - 1)

Fix(n) == n * Scale

FMul(a, b) == (a * b) \div Scale

RECURSIVE SqrtHi(_, _)
\* a power of two whose square exceeds x
SqrtHi(x, h) == IF h * h > x THEN h ELSE SqrtHi(x, 2 * h)

FSqrt(a) == Bisect(a * Scale, 0, SqrtHi(a * Scale, 1))

\* 252**0.5
SqrtTradingDays == FSqrt(Fix(TradingDays))

\* the usual annualisation, volatility * sqrt(252), without the outer root
AnnualizeStandard(cv) ==
  [i \in 1..Len(cv) |-> Row(cv[i].date, FMul(cv[i].value, SqrtTradingDays))]

\* line 117: np.sqrt(results.conditional_volatility * (252**0.5)), row by row
Annualize(cv) ==
  [i \in 1..Len(cv) |->
     Row(cv[i].date, FSqrt(FMul(cv[i].value, SqrtTradingDays)))]

\* Series.to_string(): one text row per element, date then value
SeriesToString(s) == [i \in 1..Len(s) |-> <<s[i].date, s[i].value>>]

\* Series.index
Index(s) == [i \in 1..Len(s) |-> s[i].date]

\* the values of a Series, in row order
Values(s) == [i \in 1..Len(s) |-> s[i].value]

\* ---------------------------------------------------- external capabilities
\* str(e) of the exceptions the libraries raise
ExcMsgs == { "e1", "e2" }

\* yf.download(...)['Close']: a Series of closing prices on increasing dates
PriceSeriesOf(prices) ==
  [i \in 1..Len(prices) |-> Row(i, <<prices[i], 1>>)]

PriceSeriesSet(maxLen, prices) ==
  UNION { { PriceSeriesOf(f) : f \in [1..n -> prices] } : n \in 0..maxLen }

\* the closing prices of the series fetched in Spec and SpecOrders
Prices == { 0, 1 }

\* the conditional volatilities a fit can return for n observations
VolSet(n, maxCv) == [1..n -> { Fix(c) : c \in 1..maxCv }]

\* arch_model(returns, ...).fit(...): the summary and the conditional
\* volatility, which arch indexes like the series it was given
FitResult(rets, pv, qv, vols) ==
  [summary |-> <<"Constant Mean - GARCH Model Results", pv, qv, Len(rets)>>,
   conditional_volatility |-> [i \in 1..Len(rets) |-> Row(rets[i].date, vols[i])]]

NoResult == [summary |-> <<>>, conditional_volatility |-> <<>>]

\* ------------------------------------------------------------ notifications
NoNote == [title |-> "", text |-> <<>>]

\* line 82
InputErrorNote ==
  [title |-> "Input Error",
   text |-> <<"GARCH orders p and q must be non-negative integers.">>]

\* line 93
NoDataNote(tk) ==
  [title |-> "Data Error",
   text |-> <<"No data found for ", tk, " in the specified date range.">>]

\* line 99
NoReturnsNote ==
  [title |-> "Data Error", text |-> <<"Not enough data to calculate returns.">>]

\* the message of the exception is left out
ExceptNoteBare(e) == [title |-> "Error", text |-> <<"An error occurred: ">>]

\* line 135
ExceptNote(e) == [title |-> "Error", text |-> <<"An error occurred: ", e>>]

\* line 136: the text the except clause appends to the output panel
ExceptText(e) == <<"error", e>>

\* ------------------------------------------------------------------ widgets
\* plt.subplots() / ax.clear(): axes without lines or title
EmptyAx == [lines |-> <<>>, title |-> <<>>]

\* ax.plot(x, y, label=...)
PlotLine(x, y, label) == [label |-> label, x |-> x, y |-> y]

\* lines 124-126: both lines and the title
Plotted(tk, pv, qv, rets, vol) ==
  [lines |-> << PlotLine(Index(rets), Values(rets), "Returns (%)"),
                PlotLine(Index(vol), Values(vol),
                         "Annualized Conditional Volatility (%)") >>,
   title |-> <<tk, pv, qv>>]

\* line 124 raised: the axes were cleared at line 123 and nothing was drawn
PlotFailed == EmptyAx

\* lines 113-120: the three inserts into the output panel
ResultText(res, vol) ==
  << <<"summary", res.summary>>,
     <<"volhdr">>,
     <<"vol", SeriesToString(vol)>> >>

\* a queued click is dispatched wherever the handler yields (update())
CanDispatchAnywhere(pcv) == TRUE

\* The Tk main loop runs a button command only between callbacks: neither
\* update_idletasks() nor a blocked library call dispatches a queued click.
CanDispatch(pcv) == pcv = "idle"

\* -------------------------------------------------------------------- state
VARIABLES
  pc,           \* where the UI thread is: "idle", "fetch" (inside yf.download), "fit"
  inflight,     \* invocations of run_garch_model that have not returned
  pending,      \* clicks on run_button waiting in the event queue
  p_text,       \* what p_entry.get() returned in the latest run
  q_text,       \* what q_entry.get() returned in the latest run
  ticker,       \* local ticker
  p,            \* local p
  q,            \* local q
  data,         \* local data
  returns,      \* local returns
  results,      \* local results
  output_text,  \* the text widget, a sequence of inserted pieces
  ax,           \* the matplotlib axes
  note,         \* the latest messagebox.showerror of the latest run
  notes,        \* messageboxes shown by the latest run
  outcome,      \* how the latest run ended
  raised,       \* <<step, message>> of the exception the latest run caught
  trace,        \* the steps the latest run entered, in order
  fetchErrNote  \* the messagebox of the latest run whose fetch raised

vars ==
  << pc, inflight, pending, p_text, q_text, ticker, p, q, data, returns,
     results, output_text, ax, note, notes, outcome, raised, trace,
     fetchErrNote >>

locals == << p_text, q_text, ticker, p, q >>

\* lines 11-70: the window as __init__ leaves it, with n clicks queued
Constructed(n) ==
  /\ pc = "idle"
  /\ inflight = 0
  /\ pending = n
  /\ p_text = <<"1">>
  /\ q_text = <<"1">>
  /\ ticker = "SPY"
  /\ p = 0
  /\ q = 0
  /\ data = <<>>
  /\ returns = <<>>
  /\ results = NoResult
  /\ output_text = <<>>
  /\ ax = EmptyAx
  /\ note = NoNote
  /\ notes = 0
  /\ outcome = "None"
  /\ raised = <<>>
  /\ trace = <<>>
  /\ fetchErrNote = NoNote

\* The user presses run_button; Tk queues the event.
Click ==
  /\ pending < MaxPending
  /\ pending' = pending + 1
  /\ UNCHANGED << pc, inflight, locals, data, returns, results, output_text,
                  ax, note, notes, outcome, raised, trace, fetchErrNote >>

\* lines 72-91: the main loop runs the command up to the call of yf.download
Run(pt, qt, tt) ==
  /\ CanDispatch(pc)
  /\ pending > 0
  /\ pending' = pending - 1
  /\ p_text' = pt
  /\ q_text' = qt
  /\ ticker' = Upper(tt)
  /\ data' = <<>>
  /\ returns' = <<>>
  /\ results' = NoResult
  /\ raised' = <<>>
  /\ IF OrdersValid(pt, qt)
       THEN /\ p' = ParseInt(pt).val
            /\ q' = ParseInt(qt).val
            /\ output_text' = << <<"fetching">> >>
            /\ pc' = "fetch"
            /\ inflight' = inflight + 1
            /\ note' = NoNote
            /\ notes' = 0
            /\ outcome' = "Running"
            /\ trace' = <<"validate", "fetch">>
            /\ UNCHANGED ax
       ELSE /\ p' = 0
            /\ q' = 0
            /\ note' = InputErrorNote
            /\ notes' = 1
            /\ outcome' = "InvalidOrderError"
            /\ trace' = <<"validate">>
            /\ UNCHANGED << pc, inflight, output_text, ax >>
  /\ UNCHANGED fetchErrNote

\* the except clause leaves the handler without giving the thread back
ExceptStuck(step, e, kind) ==
  /\ note' = ExceptNote(e)
  /\ notes' = notes + 1
  /\ output_text' = Append(output_text, ExceptText(e))
  /\ raised' = <<step, e>>
  /\ outcome' = kind
  /\ pc' = "stuck"
  /\ inflight' = inflight

\* lines 134-136: the except clause, then the handler returns
Except(step, e, kind) ==
  /\ note' = ExceptNote(e)
  /\ notes' = notes + 1
  /\ output_text' = Append(output_text, ExceptText(e))
  /\ raised' = <<step, e>>
  /\ outcome' = kind
  /\ pc' = "idle"
  /\ inflight' = inflight - 1

\* line 91 raises
FetchRaise(e) ==
  /\ pc = "fetch"
  /\ Except("fetch", e, "UnknownPipelineError")
  /\ fetchErrNote' = ExceptNote(e)
  /\ UNCHANGED << pending, locals, data, returns, results, ax, trace >>

\* lines 91-110: yf.download returns, up to the call of fit
FetchData(s) ==
  /\ pc = "fetch"
  /\ data' = s
  /\ IF IsEmpty(s)
       THEN /\ note' = NoDataNote(ticker)
            /\ notes' = notes + 1
            /\ outcome' = "NoDataError"
            /\ pc' = "idle"
            /\ inflight' = inflight - 1
            /\ UNCHANGED << returns, output_text, trace >>
       ELSE /\ returns' = Returns(s)
            /\ IF IsEmpty(Returns(s))
                 THEN /\ note' = NoReturnsNote
                      /\ notes' = notes + 1
                      /\ outcome' = "InsufficientDataError"
                      /\ pc' = "idle"
                      /\ inflight' = inflight - 1
                      /\ trace' = Append(trace, "transform")
                      /\ UNCHANGED output_text
                 ELSE /\ output_text' =
                           Append(output_text, <<"fetched", ticker, p, q>>)
                      /\ pc' = "fit"
                      /\ trace' = trace \o <<"transform", "fit">>
                      /\ UNCHANGED << note, notes, outcome, inflight >>
  /\ UNCHANGED << pending, locals, results, ax, raised, fetchErrNote >>

\* line 109 or 110 raises
FitRaise(e) ==
  /\ pc = "fit"
  /\ Except("fit", e, "ModelFitError")
  /\ UNCHANGED << pending, locals, data, returns, results, ax, trace,
                  fetchErrNote >>

\* lines 110-132: fit returns and the result is rendered
FitOk(vols) ==
  /\ pc = "fit"
  /\ LET res == FitResult(returns, p, q, vols)
         vol == Annualize(res.conditional_volatility)
     IN /\ results' = res
        /\ output_text' = output_text \o ResultText(res, vol)
        /\ ax' = Plotted(ticker, p, q, returns, vol)
  /\ outcome' = "Success"
  /\ trace' = Append(trace, "render")
  /\ pc' = "idle"
  /\ inflight' = inflight - 1
  /\ UNCHANGED << pending, locals, data, returns, note, notes, raised,
                  fetchErrNote >>

\* lines 110-124, 134-136: fit returns, the text is inserted, ax.plot raises
RenderRaise(vols, e) ==
  /\ pc = "fit"
  /\ LET res == FitResult(returns, p, q, vols)
         vol == Annualize(res.conditional_volatility)
     IN /\ results' = res
        /\ output_text' =
             Append(output_text \o ResultText(res, vol), ExceptText(e))
        /\ ax' = PlotFailed
  /\ note' = ExceptNote(e)
  /\ notes' = notes + 1
  /\ raised' = <<"render", e>>
  /\ outcome' = "UnknownPipelineError"
  /\ trace' = Append(trace, "render")
  /\ pc' = "idle"
  /\ inflight' = inflight - 1
  /\ UNCHANGED << pending, locals, data, returns, fetchErrNote >>

Init == Constructed(0)

Next ==
  \/ Click
  \/ \E pt \in Texts, qt \in Texts, tt \in TickerTexts : Run(pt, qt, tt)
  \/ \E e \in ExcMsgs : FetchRaise(e)
  \/ \E s \in PriceSeriesSet(MaxLen, Prices) : FetchData(s)
  \/ \E e \in ExcMsgs : FitRaise(e)
  \/ \E vols \in VolSet(Len(returns), 2) : FitOk(vols)
  \/ \E vols \in VolSet(Len(returns), 2), e \in ExcMsgs : RenderRaise(vols, e)

Spec == Init /\ [][Next]_vars

\* One run on every text of up to MaxTextLen characters in the two order
\* entries: the validation of lines 76-83.
InitOrders == Constructed(1)

NextOrders ==
  \/ /\ pending > 0
     /\ \E pt \in AllTexts(MaxTextLen), qt \in AllTexts(MaxTextLen) :
          Run(pt, qt, "spy")
  \/ \E e \in ExcMsgs : FetchRaise(e)
  \/ \E s \in PriceSeriesSet(MaxLen, Prices) : FetchData(s)

SpecOrders == InitOrders /\ [][NextOrders]_vars

\* One run with the default orders of lines 38 and 44 on longer price series:
\* the transform of line 97 and the annualisation of line 117.
InitSeries == Constructed(1)

NextSeries ==
  \/ Run(<<"1">>, <<"1">>, "SPY")
  \/ \E s \in PriceSeriesSet(SeriesMaxLen, 0..SeriesMaxPrice) : FetchData(s)
  \/ \E vols \in VolSet(Len(returns), MaxCv) : FitOk(vols)

SpecSeries == InitSeries /\ [][NextSeries]_vars


\* ------------------------------------------------------------- properties
ErrorOutcomes ==
  { "InvalidOrderError", "NoDataError", "InsufficientDataError",
    "ModelFitError", "UnknownPipelineError" }

Outcomes == ErrorOutcomes \cup { "Success" }

StepOrder == <<"validate", "fetch", "transform", "fit", "render">>

\* how often the latest run entered a step
Count(step) == Cardinality({ i \in 1..Len(trace) : trace[i] = step })

Entered(step) == Count(step) > 0

\* the pieces of the output panel of one kind
Pieces(kind) == { i \in 1..Len(output_text) : output_text[i][1] = kind }

AllIn(t, chars) == \A i \in 1..Len(t) : t[i] \in chars

\* t is the decimal notation of an integer >= 0: blanks, then digits, or
\* "+" and digits, or "-" and zeros, then blanks
DenotesNonNeg(t) ==
  \E a \in 0..Len(t), b \in 0..Len(t) :
    /\ a + b < Len(t)
    /\ AllIn(SubSeq(t, 1, a), {" "})
    /\ AllIn(SubSeq(t, Len(t) - b + 1, Len(t)), {" "})
    /\ LET m == SubSeq(t, a + 1, Len(t) - b)
       IN \/ AllIn(m, {"0", "1"})
          \/ Len(m) > 1 /\ m[1] = "+" /\ AllIn(Tail(m), {"0", "1"})
          \/ Len(m) > 1 /\ m[1] = "-" /\ AllIn(Tail(m), {"0"})

\* C1: a run whose p or q text is not an integer >= 0 ends with the
\* "Input Error" notification and enters neither fetch nor fit; a run whose
\* texts are both integers >= 0 (0 included) passes validation and calls the
\* fetch.
C1_OrdersValidated ==
  outcome # "None" =>
    /\ (~DenotesNonNeg(p_text) \/ ~DenotesNonNeg(q_text)) =>
         /\ outcome = "InvalidOrderError"
         /\ note.title = "Input Error"
         /\ trace = <<"validate">>
         /\ pc = "idle"
    /\ (DenotesNonNeg(p_text) /\ DenotesNonNeg(q_text)) =>
         /\ outcome # "InvalidOrderError"
         /\ Len(trace) >= 2
         /\ trace[2] = "fetch"

C1_Witness ==
  /\ outcome = "InvalidOrderError"
  /\ p_text = <<"-", "1">>
  /\ q_text = <<"0">>

\* C2: every run that ends in one of the five error outcomes has shown
\* exactly one notification and has an error message in the output panel.
C2_AllErrorsOnPanel ==
  (pc = "idle" /\ outcome \in ErrorOutcomes) =>
    /\ notes = 1
    /\ Pieces("error") # {}

\* C3: when the latest run ended in an error, neither the output panel nor
\* the chart shows a summary, a volatility series or a plot.
C3_NoResultAfterError ==
  (pc = "idle" /\ outcome \in ErrorOutcomes) =>
    /\ ax = EmptyAx
    /\ Pieces("summary") = {}
    /\ Pieces("vol") = {}

\* C4: a validated run whose fetch returns an empty PriceSeries ends with
\* NoDataError and enters neither transform nor fit nor render.
C4_EmptyFetch ==
  (Entered("fetch") /\ pc # "fetch" /\ raised = <<>> /\ data = <<>>) =>
    /\ outcome = "NoDataError"
    /\ note.title = "Data Error"
    /\ trace = <<"validate", "fetch">>
    /\ results = NoResult

C4_Witness ==
  /\ outcome = "NoDataError"
  /\ pc = "idle"
  /\ data = <<>>

\* C5: a validated run whose fetch returns a PriceSeries of length 1 ends
\* with InsufficientDataError without entering fit; a run enters fit only with
\* a non-empty ReturnSeries.
C5_SinglePrice ==
  /\ Len(data) = 1 =>
       /\ outcome = "InsufficientDataError"
       /\ ~Entered("fit")
       /\ results = NoResult
  /\ Entered("fit") => returns # <<>>

C5_Witness ==
  /\ Len(data) = 1
  /\ outcome = "InsufficientDataError"
  /\ pc = "idle"

C7_ReturnSeries ==
  (Len(data) >= 2 /\ \A i \in 1..Len(data) : data[i].value[1] # 0) =>
    /\ Len(returns) = Len(data) - 1
    /\ \A i \in 1..(Len(data) - 1) :
         /\ i <= Len(returns)
         /\ returns[i].date = data[i + 1].date
         /\ returns[i].value[2] # 0
         /\ returns[i].value[1] * data[i].value[1] =
              Pct * (data[i + 1].value[1] - data[i].value[1]) * returns[i].value[2]

C7_Witness ==
  /\ Len(data) = 3
  /\ \A i \in 1..Len(data) : data[i].value[1] # 0
  /\ Len(returns) = 2
  /\ returns[1].value # returns[2].value

\* y is the square root of c * sqrt(252), to the resolution 1/Scale
IsAnnualized(c, y) ==
  \E r \in (15 * Scale)..(16 * Scale) :
    /\ r * r <= TradingDays * Scale * Scale
    /\ TradingDays * Scale * Scale < (r + 1) * (r + 1)
    /\ y * y <= c * r
    /\ c * r < (y + 1) * (y + 1)

\* C8: on a successful run the printed and the plotted volatility series
\* have the length and the dates of the ReturnSeries, and element i is
\* sqrt(conditional_volatility[i] * sqrt(252)).
C8_AnnualizedVolatility ==
  outcome = "Success" =>
    /\ Cardinality(Pieces("vol")) = 1
    /\ Len(ax.lines) = 2
    /\ LET cv      == results.conditional_volatility
           printed == output_text[CHOOSE i \in Pieces("vol") : TRUE][2]
           plotted == ax.lines[2]
       IN /\ Len(cv) = Len(returns)
          /\ Len(printed) = Len(returns)
          /\ Len(plotted.x) = Len(returns)
          /\ Len(plotted.y) = Len(returns)
          /\ \A i \in 1..Len(returns) :
               /\ cv[i].date = returns[i].date
               /\ printed[i][1] = returns[i].date
               /\ plotted.x[i] = returns[i].date
               /\ printed[i][2] = plotted.y[i]
               /\ IsAnnualized(cv[i].value, printed[i][2])

C8_Witness ==
  /\ outcome = "Success"
  /\ Len(returns) = 2
  /\ results.conditional_volatility[1].value # results.conditional_volatility[2].value
  /\ ax.lines[2].y[1] # ax.lines[2].y[2]

\* the outcome the inputs and the external responses of one run call for
ExpectedOutcome ==
  IF ~DenotesNonNeg(p_text) \/ ~DenotesNonNeg(q_text)
    THEN "InvalidOrderError"
  ELSE IF raised # <<>> /\ raised[1] = "fetch" THEN "UnknownPipelineError"
  ELSE IF data = <<>> THEN "NoDataError"
  ELSE IF \A i \in 1..Len(data) : i > 1 => (data[i].value[1] = 0 /\ data[i - 1].value[1] = 0)
    THEN "InsufficientDataError"
  ELSE IF raised # <<>> /\ raised[1] = "fit" THEN "ModelFitError"
  ELSE IF raised # <<>> THEN "UnknownPipelineError"
  ELSE "Success"

\* C9: whatever outcome a run had, the handler has returned and the UI
\* thread is idle, a queued click starts a new run, and the outcome of a run
\* is the one its own inputs and external responses call for.
C9_UsableAfterAnyOutcome ==
  /\ outcome \in Outcomes =>
       /\ pc = "idle"
       /\ inflight = 0
       /\ outcome = ExpectedOutcome
       /\ pending > 0 => ENABLED (\E pt \in Texts, qt \in Texts, tt \in TickerTexts : Run(pt, qt, tt))
       /\ pending < MaxPending => ENABLED Click
  /\ outcome \notin Outcomes => (outcome = "Running" \/ (outcome = "None" /\ pc = "idle"))
  /\ outcome = "Running" => pc \in {"fetch", "fit"}

C9_Witness ==
  /\ outcome = "ModelFitError"
  /\ pc = "idle"
  /\ pending = 1
  /\ ax # EmptyAx

\* C10: at most one invocation of run_garch_model is in flight, a click
\* that arrives during a run waits, and the steps of a run are entered in the
\* order validate, fetch, transform, fit, render, none after a failed step.
C10_Serialized ==
  /\ inflight <= 1
  /\ inflight = 1 <=> pc # "idle"
  /\ Len(trace) <= Len(StepOrder)
  /\ \A i \in 1..Len(trace) : trace[i] = StepOrder[i]
  /\ raised # <<>> => trace[Len(trace)] = raised[1]
  /\ outcome = "NoDataError" => trace[Len(trace)] = "fetch"
  /\ outcome = "InsufficientDataError" => trace[Len(trace)] = "transform"
  /\ outcome = "InvalidOrderError" => trace[Len(trace)] = "validate"

C10_Witness ==
  /\ pc = "fit"
  /\ pending = 1
  /\ inflight = 1

====
